---------------------------- MODULE Spec2Model ----------------------------
(***************************************************************************)
(* Model of hyperliquid-trader/ml/scorer.py: the feature encoder           *)
(* (build_features, encode_rule), the dataset loader (load_jsonl), the     *)
(* trainer (train) and the scorer (score), together with the three         *)
(* persisted artifacts they share (confidence_model.pkl,                   *)
(* label_encoders.pkl, training_meta.json).                                *)
(*                                                                         *)
(* Numbers.  Python floats are modelled as integers counting thousandths   *)
(* ("milli"): 25 is 25000, 0.03 is 30, -0.5 is -500.  Categorical codes,   *)
(* labels and counters are whole integers.  The inputs drawn below hold    *)
(* whole alt_rank values, for which min(a,1000)/1000.0 is exact in milli.  *)
(*                                                                         *)
(* JSON values are records [t, n, s]: t is the JSON type, n the number (or *)
(* the truth value 0/1), s the string.  A dict is a function from a set of *)
(* field names to such values.                                             *)
(***************************************************************************)
EXTENDS Integers, Sequences, FiniteSets, TLC

Num(n)  == [t |-> "num",  n |-> n, s |-> ""]
Str(s)  == [t |-> "str",  n |-> 0, s |-> s]
Bool(b) == [t |-> "bool", n |-> b, s |-> ""]
Null    == [t |-> "null", n |-> 0, s |-> ""]
List(items) == [t |-> "list", items |-> items]

\* One unit of a float, in thousandths.
Milli == 10 ^ 3

\* A whole number as a JSON value.
Whole(k) == Num(k * Milli)

EmptyRow == [k \in {} |-> Null]

\* row.get(key, default)
Get(row, key, default) == IF key \in DOMAIN row THEN row[key] ELSE default

(***************************************************************************)
(* Python conversions.  float() and int() raise on None and on strings     *)
(* that do not spell a number; str() never raises.                         *)
(***************************************************************************)

\* The strings of the input universe that spell a number, with their value.
NumericStrings == {"0", "1"}

ParseNumber(s) == IF s = "1" THEN 1 ELSE 0

\* float(v) raises TypeError / ValueError
FloatRaises(v) ==
    \/ v.t = "null"
    \/ v.t = "str" /\ v.s \notin NumericStrings

\* float(v), in milli
Float(v) ==
    CASE v.t = "num"  -> v.n
      [] v.t = "bool" -> v.n * Milli
      [] v.t = "str"  -> ParseNumber(v.s) * Milli
      [] OTHER        -> 0

\* Truncation toward zero of a milli value to a whole integer.
Trunc(m) == IF m >= 0 THEN m \div Milli ELSE -((-m) \div Milli)

\* int(v) raises TypeError / ValueError
IntRaises(v) ==
    \/ v.t = "null"
    \/ v.t = "str" /\ v.s \notin NumericStrings

\* int(v), a whole integer
Int_(v) ==
    CASE v.t = "num"  -> Trunc(v.n)
      [] v.t = "bool" -> v.n
      [] v.t = "str"  -> ParseNumber(v.s)
      [] OTHER        -> 0

\* str(v).  Categorical fields of the input universe hold strings, null or
\* booleans; the text of a number is no key of any table below.
StrOf(v) ==
    CASE v.t = "str"  -> v.s
      [] v.t = "null" -> "None"
      [] v.t = "bool" -> IF v.n = 1 THEN "True" ELSE "False"
      [] OTHER        -> "<number>"

(***************************************************************************)
(* The encoding tables.                                                    *)
(***************************************************************************)
REGIME_MAP ==
    ("quiet" :> 0) @@ ("ranging" :> 1) @@ ("trending" :> 2) @@ ("volatile_trend" :> 3)

SIDE_MAP == ("long" :> 0) @@ ("short" :> 1)

RULE_MAP ==
    ("R1-mean-reversion" :> 0) @@ ("R2-mean-reversion" :> 1) @@ ("R3-trend" :> 2)
        @@ ("R4-trend" :> 3) @@ ("R6-sentiment" :> 4)

\* dict.get(key, default) on a table
Lookup(map, key, default) == IF key \in DOMAIN map THEN map[key] ELSE default

\* rule.startswith("C-"), on the rule strings of the input universe
StartsWithC(rule) == rule \in {"C-fade", "C-R3-trend"}

encode_rule(rule) ==
    IF StartsWithC(rule) THEN 5 ELSE Lookup(RULE_MAP, rule, 3)

\* The alt_rank clamp of build_features.
AltRankCap == 1000

\* A parsed JSON document: a dict (isObj, with its items d) or another value.
Obj(d)  == [isObj |-> TRUE, d |-> d]
NonObj  == [isObj |-> FALSE, d |-> EmptyRow]

\* The numeric fields build_features converts with float(), with their defaults.
FloatDefaults ==
    ("adx" :> 25 * Milli) @@ ("plus_di" :> 20 * Milli) @@ ("minus_di" :> 20 * Milli)
        @@ ("rsi" :> 50 * Milli) @@ ("macd_histogram" :> 0) @@ ("bb_width" :> 30)
        @@ ("atr_pct" :> 10) @@ ("galaxy_score" :> 0) @@ ("sentiment_pct" :> 50 * Milli)
        @@ ("alt_rank" :> 500 * Milli)

\* float(row.get(key, default))
FloatField(row, key) == Float(Get(row, key, Num(FloatDefaults[key])))

\* min(a, b)
Min(a, b) == IF a < b THEN a ELSE b

Max(a, b) == IF a > b THEN a ELSE b

\* build_features raises: row.get on a value that is no dict (AttributeError),
\* or float() of a field that is no number.
BuildRaises(doc) ==
    \/ ~doc.isObj
    \/ \E key \in DOMAIN FloatDefaults :
            key \in DOMAIN doc.d /\ FloatRaises(doc.d[key])

\* side_str = str(row.get("side", "long"))
SideStr(row) == StrOf(Get(row, "side", Str("long")))

\* di_spread = (plus_di - minus_di) if side_str == "long" else (minus_di - plus_di)
DiSpread(row) ==
    IF SideStr(row) = "long"
       THEN FloatField(row, "plus_di") - FloatField(row, "minus_di")
       ELSE FloatField(row, "minus_di") - FloatField(row, "plus_di")

\* side = SIDE_MAP.get(side_str, 0)
SideCode(row) == Lookup(SIDE_MAP, SideStr(row), 0)

\* coin_enc = coin_encoder.get(coin, coin_encoder.get("_unknown", 0))
CoinCode(coin, coin_encoder) ==
    Lookup(coin_encoder, coin, Lookup(coin_encoder, "_unknown", 0))

\* alt_rank_norm = 1.0 - min(alt_rank, 1000) / 1000.0, in milli
AltRankNorm(alt_rank) ==
    Milli - (Min(alt_rank, AltRankCap * Milli) \div AltRankCap)

\* The 15-element vector build_features returns when it does not raise.
build_features(row, coin_encoder) ==
    << FloatField(row, "adx"),
       FloatField(row, "plus_di"),
       FloatField(row, "minus_di"),
       DiSpread(row),
       FloatField(row, "rsi"),
       FloatField(row, "macd_histogram"),
       FloatField(row, "bb_width"),
       FloatField(row, "atr_pct"),
       Lookup(REGIME_MAP, StrOf(Get(row, "regime", Str("ranging"))), 1),
       SideCode(row),
       encode_rule(StrOf(Get(row, "rule", Str("R4-trend")))),
       CoinCode(StrOf(Get(row, "coin", Str("BTC"))), coin_encoder),
       FloatField(row, "galaxy_score"),
       FloatField(row, "sentiment_pct"),
       AltRankNorm(FloatField(row, "alt_rank")) >>

\* Positions of the vector's elements the properties read.
DiSpreadOf(f)    == f[4]
SideOf(f)        == f[10]
AltRankNormOf(f) == f[15]

(***************************************************************************)
(* The categorical encoder builder (train, lines 120-123).                 *)
(***************************************************************************)

\* The coin strings of the input universe, in Python's string order
\* (code points: "B" < "E" < "N" < "_" < "s").
CoinOrder == << "BTC", "ETH", "None", "_unknown", "sol" >>

\* sorted(set(...)) of a set of coin strings
SortedCoins(S) == SelectSeq(CoinOrder, LAMBDA c : c \in S)

\* str(r.get("coin", "BTC"))
CoinStr(row) == StrOf(Get(row, "coin", Str("BTC")))

\* {c: i for i, c in enumerate(coins)}
Enumerate(coins) ==
    [c \in {coins[k] : k \in 1..Len(coins)} |->
        (CHOOSE k \in 1..Len(coins) : coins[k] = c) - 1]

\* coin_encoder["_unknown"] = len(coin_encoder): an assignment, which replaces
\* the value of a key the dict already holds.
SetUnknown(enc) ==
    [c \in DOMAIN enc \cup {"_unknown"} |->
        IF c = "_unknown" THEN Cardinality(DOMAIN enc) ELSE enc[c]]

BuildCoinEncoder(docs) ==
    SetUnknown(Enumerate(SortedCoins({CoinStr(docs[k].d) : k \in 1..Len(docs)})))

(***************************************************************************)
(* The label of a training row (train, lines 132-138).                     *)
(***************************************************************************)

\* One pass of the body of the per-row loop: the row is skipped (no label
\* field, or an exception in build_features, int() or float()), or it yields
\* a feature vector and a label.
RowOutcome(doc, coin_encoder) ==
    LET skip == [skip |-> TRUE, features |-> << >>, label |-> 0]
        keep(l) == [skip |-> FALSE,
                    features |-> build_features(doc.d, coin_encoder),
                    label |-> l]
    IN  IF BuildRaises(doc) THEN skip
        ELSE IF "won" \in DOMAIN doc.d
             THEN IF IntRaises(doc.d["won"]) THEN skip
                  ELSE keep(Int_(doc.d["won"]))
        ELSE IF "pnl" \in DOMAIN doc.d
             THEN IF FloatRaises(doc.d["pnl"]) THEN skip
                  ELSE keep(IF Float(doc.d["pnl"]) >= 0 THEN 1 ELSE 0)
        ELSE skip

\* Mutant of NextSkipped: a skipped row is not counted.
NextSkipped_Uncounted(skipped, out) == skipped

\* skipped += 1 on a row without a label and in the except clause
NextSkipped(skipped, out) == IF out.skip THEN skipped + 1 ELSE skipped

(***************************************************************************)
(* The dataset loader.  A file is a sequence of lines; a line is blank,    *)
(* malformed, or the text of a JSON document.                              *)
(***************************************************************************)
JsonLine(doc) == [kind |-> "json", doc |-> doc]
BadLine       == [kind |-> "bad", doc |-> NonObj]
BlankLine     == [kind |-> "blank", doc |-> NonObj]

RECURSIVE load_jsonl(_)
load_jsonl(lines) ==
    IF lines = << >> THEN << >>
    ELSE LET line == Head(lines)
             rest == load_jsonl(Tail(lines))
         IN  IF line.kind = "json" THEN << line.doc >> \o rest ELSE rest

(***************************************************************************)
(* State.                                                                  *)
(***************************************************************************)
VARIABLES
    \* MODEL_DIR: the three persisted artifacts
    modelFile,      \* confidence_model.pkl
    encFile,        \* label_encoders.pkl
    metaFile,       \* training_meta.json
    \* train()
    tpc,            \* position in train()
    rows,           \* the loaded documents
    coin_encoder,   \* the encoder train() builds
    i,              \* index of the next row of the per-row loop (from 1)
    X, y,           \* feature matrix and labels
    skipped,
    cv_scores,
    tClf,           \* the fitted classifier, in memory
    tOut,           \* what train() printed on stdout
    tEnd,           \* "running", "exit0", "exit1" (sys.exit(1)) or "unhandled"
                    \* (an exception left train(): traceback, exit status 1)
    \* history of train()
    src,            \* src[k]: the index in rows of the row behind X[k], y[k]
    loaded,         \* load_jsonl has returned the rows
    written,        \* the artifacts this run has written to so far
    disk0,          \* the artifacts as they were when the run started
    \* score()
    spc,            \* position in score()
    sDeps,          \* joblib and numpy can be imported
    stdin,          \* the text on standard input
    clf,            \* the classifier score() loaded
    sEnc,           \* the encoders score() loaded
    meta,           \* the metadata score() loaded
    features,       \* the encoded input record
    sOut,           \* what score() printed on stdout
    sEnd,           \* "running", "exit0" or "unhandled"
    \* history of score()
    sRaised,        \* an exception was raised inside score()
    sPhaseClf,      \* train()'s persistence phase when score() loaded the classifier
    sPhaseEnc,      \* ... and when it loaded the encoders
    \* build_features applied to one drawn document
    fDoc, fEnc, fOut

diskVars  == << modelFile, encFile, metaFile >>
trainVars == << tpc, rows, coin_encoder, i, X, y, skipped, cv_scores, tClf, tOut,
                tEnd, src, loaded, written, disk0 >>
scoreVars == << spc, sDeps, stdin, clf, sEnc, meta, features, sOut, sEnd, sRaised, sPhaseClf, sPhaseEnc >>
featVars  == << fDoc, fEnc, fOut >>
vars      == << diskVars, trainVars, scoreVars, featVars >>

(***************************************************************************)
(* The artifacts.  st is "absent", "corrupt" (the file is there and cannot *)
(* be loaded) or "ok"; run names the training run that wrote the file.     *)
(***************************************************************************)
NoEncoder == [c \in {} |-> 0]

AbsentModel == [st |-> "absent", run |-> "none", classes |-> {}]
AbsentEnc   == [st |-> "absent", run |-> "none", coin_encoder |-> NoEncoder]
AbsentMeta  == [st |-> "absent", run |-> "none", doc |-> NonObj]

\* What a file holds after a write that was cut short.
Corrupt(file) == [file EXCEPT !.st = "corrupt"]

\* The artifacts an earlier, complete training run left behind.
PriorModel == [st |-> "ok", run |-> "prior", classes |-> {0, 1}]
PriorEnc   == [st |-> "ok", run |-> "prior",
               coin_encoder |-> SetUnknown(Enumerate(<< "BTC", "ETH" >>))]
PriorMeta  == [st |-> "ok", run |-> "prior",
               doc |-> Obj(("sampleCount" :> Whole(12)) @@ ("accuracy" :> Num(750))
                           @@ ("cvScores" :> List(<< 750, 750 >>))
                           @@ ("skipped" :> Whole(0)))]

(***************************************************************************)
(* Inputs of train(): the files behind --data and --live.                  *)
(***************************************************************************)

\* The sample floors of train().
MinRows  == 10
MinValid == 10

\* Bounds of the drawn datasets: a dataset is MinRows - FillSlack .. MinRows
\* copies of one well-formed labelled record, followed by at most MaxVar
\* lines drawn from VarLines.
FillSlack == 3
MaxVar    == 2

FillDoc ==
    Obj(("coin" :> Str("BTC")) @@ ("side" :> Str("short")) @@ ("plus_di" :> Num(18000))
        @@ ("minus_di" :> Num(27000)) @@ ("won" :> Whole(1)))

VarLines ==
    { JsonLine(Obj(("coin" :> Str("ETH")) @@ ("won" :> Whole(1)) @@ ("pnl" :> Num(-100000)))),
      JsonLine(Obj(("coin" :> Str("sol")) @@ ("pnl" :> Num(-500)))),
      JsonLine(Obj(("coin" :> Str("BTC")) @@ ("rule" :> Str("C-fade")))),
      JsonLine(Obj(("won" :> Whole(2)) @@ ("regime" :> Str("trending")))),
      JsonLine(Obj(("won" :> Null) @@ ("pnl" :> Num(1000)))),
      JsonLine(Obj(("adx" :> Str("abc")) @@ ("won" :> Whole(1)))),
      JsonLine(Obj(("coin" :> Str("_unknown")) @@ ("won" :> Whole(0)))),
      JsonLine(NonObj),
      BadLine }

Fill(k) == [j \in 1..k |-> JsonLine(FillDoc)]

RECURSIVE SeqsUpTo(_, _)
SeqsUpTo(S, n) ==
    IF n = 0 THEN { << >> }
    ELSE LET shorter == SeqsUpTo(S, n - 1)
         IN  shorter \cup { Append(q, e) : q \in shorter, e \in S }

File(lines)  == [exists |-> TRUE, lines |-> lines]
MissingFile  == [exists |-> FALSE, lines |-> << >>]

\* What --data can name.
DataFiles(maxVar) ==
    { MissingFile } \cup
    { File(Fill(k) \o v) : k \in (MinRows - FillSlack)..MinRows, v \in SeqsUpTo(VarLines, maxVar) }

\* What --live can be: not given, a path that does not exist, a file.
LiveFile == File(<< BlankLine, JsonLine(Obj(("coin" :> Str("ETH")) @@ ("pnl" :> Num(0)))) >>)

LiveArgs == { [given |-> FALSE, file |-> MissingFile],
              [given |-> TRUE,  file |-> MissingFile],
              [given |-> TRUE,  file |-> LiveFile] }

(***************************************************************************)
(* train()                                                                 *)
(***************************************************************************)
ErrOut(msg) == ("error" :> Str(msg))

\* print(json.dumps({"error": ...})); sys.exit(1)
TrainFail(msg) ==
    /\ tOut' = Append(tOut, ErrOut(msg))
    /\ tEnd' = "exit1"
    /\ tpc' = "done"

\* An exception nothing in train() or main() catches.
TrainUnhandled ==
    /\ tOut' = tOut
    /\ tEnd' = "unhandled"
    /\ tpc' = "done"

\* Lines 101-109: the imports.
TrainImport ==
    /\ tpc = "idle"
    /\ \E deps \in BOOLEAN :
          IF deps
             THEN tpc' = "load" /\ UNCHANGED << tOut, tEnd >>
             ELSE TrainFail("Missing dependency: No module named 'sklearn'. Run ml/setup.sh first.")
    /\ UNCHANGED << rows, coin_encoder, i, X, y, skipped, cv_scores, tClf, src, loaded, written, disk0 >>
    /\ UNCHANGED << diskVars, scoreVars, featVars >>

\* Lines 111-114: load_jsonl(data_path), extended by the live rows when the
\* live path is given and exists.  open() of a primary path that does not
\* exist raises FileNotFoundError inside load_jsonl.
LoadedRows(data, live) ==
    load_jsonl(data.lines)
        \o (IF live.given /\ live.file.exists THEN load_jsonl(live.file.lines) ELSE << >>)

TrainLoad(maxVar) ==
    /\ tpc = "load"
    /\ \E data \in DataFiles(maxVar), live \in LiveArgs :
          IF data.exists
             THEN /\ rows' = LoadedRows(data, live)
                  /\ loaded' = TRUE
                  /\ tpc' = "check_rows"
                  /\ UNCHANGED << tOut, tEnd >>
             ELSE /\ rows' = rows
                  /\ loaded' = loaded
                  /\ TrainUnhandled
    /\ UNCHANGED << coin_encoder, i, X, y, skipped, cv_scores, tClf, src, written, disk0 >>
    /\ UNCHANGED << diskVars, scoreVars, featVars >>

\* Lines 116-118.
TooFewRows(n) == n < MinRows

TrainCheckRows ==
    /\ tpc = "check_rows"
    /\ IF TooFewRows(Len(rows))
          THEN TrainFail("Too few samples: " \o ToString(Len(rows)) \o " (need >= 10)")
          ELSE tpc' = "encoder" /\ UNCHANGED << tOut, tEnd >>
    /\ UNCHANGED << rows, coin_encoder, i, X, y, skipped, cv_scores, tClf, src, loaded, written, disk0 >>
    /\ UNCHANGED << diskVars, scoreVars, featVars >>

\* Lines 120-123.  r.get on a loaded document that is no dict raises
\* AttributeError, outside any try.
TrainBuildEncoder ==
    /\ tpc = "encoder"
    /\ IF \E k \in 1..Len(rows) : ~rows[k].isObj
          THEN /\ coin_encoder' = coin_encoder
               /\ TrainUnhandled
          ELSE /\ coin_encoder' = BuildCoinEncoder(rows)
               /\ tpc' = "rows"
               /\ UNCHANGED << tOut, tEnd >>
    /\ UNCHANGED << rows, i, X, y, skipped, cv_scores, tClf, src, loaded, written, disk0 >>
    /\ UNCHANGED << diskVars, scoreVars, featVars >>

\* Lines 128-142: one pass of the per-row loop.
TrainRow ==
    /\ tpc = "rows"
    /\ i <= Len(rows)
    /\ LET out == RowOutcome(rows[i], coin_encoder)
       IN  /\ X' = IF out.skip THEN X ELSE Append(X, out.features)
           /\ y' = IF out.skip THEN y ELSE Append(y, out.label)
           /\ src' = IF out.skip THEN src ELSE Append(src, i)
           /\ skipped' = NextSkipped(skipped, out)
    /\ i' = i + 1
    /\ UNCHANGED << tpc, rows, coin_encoder, cv_scores, tClf, tOut, tEnd, loaded, written, disk0 >>
    /\ UNCHANGED << diskVars, scoreVars, featVars >>

\* Mutant of TooFewValid: the floor is exclusive.
TooFewValid_Exclusive(n) == n <= MinValid

\* Lines 144-149, once the loop has ended.
TooFewValid(n) == n < MinValid

TrainCheckValid ==
    /\ tpc = "rows"
    /\ i > Len(rows)
    /\ IF TooFewValid(Len(X))
          THEN TrainFail("Too few valid samples after processing: " \o ToString(Len(X))
                            \o " (skipped " \o ToString(skipped) \o ")")
          ELSE tpc' = "cv" /\ UNCHANGED << tOut, tEnd >>
    /\ UNCHANGED << rows, coin_encoder, i, X, y, skipped, cv_scores, tClf, src, loaded, written, disk0 >>
    /\ UNCHANGED << diskVars, scoreVars, featVars >>

\* Line 160: n_folds = min(5, max(2, len(X) // 10))
NFolds(n) == Min(5, Max(2, n \div 10))

RECURSIVE Sum(_)
Sum(q) == IF q = << >> THEN 0 ELSE Head(q) + Sum(Tail(q))

\* cv_scores.mean()
Mean(q) == Sum(q) \div Len(q)

\* The classifier library is opaque: a fold's accuracy is one of these
\* (milli), and cross_val_score and fit may raise (a non-finite feature, a
\* class with too few members).
AccuracySamples == { 400, 900 }

\* Lines 160-162.  An exception of cross_val_score leaves train().
TrainCrossValidate ==
    /\ tpc = "cv"
    /\ \E ok \in BOOLEAN, acc \in AccuracySamples :
          IF ok
             THEN /\ cv_scores' = [k \in 1..NFolds(Len(X)) |-> acc]
                  /\ tpc' = "fit"
                  /\ UNCHANGED << tOut, tEnd >>
             ELSE /\ cv_scores' = cv_scores
                  /\ TrainUnhandled
    /\ UNCHANGED << rows, coin_encoder, i, X, y, skipped, tClf, src, loaded, written, disk0 >>
    /\ UNCHANGED << diskVars, scoreVars, featVars >>

\* clf.classes_ after clf.fit(X, y): the distinct labels
Classes(labels) == { labels[k] : k \in 1..Len(labels) }

\* Line 165.
TrainFit ==
    /\ tpc = "fit"
    /\ \E ok \in BOOLEAN :
          IF ok
             THEN /\ tClf' = [classes |-> Classes(y)]
                  /\ tpc' = "dump_model"
                  /\ UNCHANGED << tOut, tEnd >>
             ELSE /\ tClf' = tClf
                  /\ TrainUnhandled
    /\ UNCHANGED << rows, coin_encoder, i, X, y, skipped, cv_scores, src, loaded, written, disk0 >>
    /\ UNCHANGED << diskVars, scoreVars, featVars >>

\* A write to MODEL_DIR succeeds, raises before it touched the file (the
\* directory cannot be made or written), or raises after it truncated it.
WriteOutcomes == { "ok", "raise_before", "raise_partial" }

\* The file after a write of new over old with outcome r.
AfterWrite(old, new, r) ==
    CASE r = "ok"            -> new
      [] r = "raise_before"  -> old
      [] r = "raise_partial" -> Corrupt(new)

\* The artifacts written so far, after a write of file name with outcome r.
WrittenAfter(name, r) == IF r = "raise_before" THEN written ELSE written \cup { name }

\* Lines 168-169: MODEL_DIR.mkdir, joblib.dump(clf, confidence_model.pkl).
ModelArtifact(c) == [st |-> "ok", run |-> "this", classes |-> c.classes]

TrainDumpModel ==
    /\ tpc = "dump_model"
    /\ \E r \in WriteOutcomes :
          /\ modelFile' = AfterWrite(modelFile, ModelArtifact(tClf), r)
          /\ written' = WrittenAfter("model", r)
          /\ IF r = "ok" THEN tpc' = "dump_encoders" /\ UNCHANGED << tOut, tEnd >>
                         ELSE TrainUnhandled
    /\ UNCHANGED << encFile, metaFile >>
    /\ UNCHANGED << rows, coin_encoder, i, X, y, skipped, cv_scores, tClf, src, loaded, disk0 >>
    /\ UNCHANGED << scoreVars, featVars >>

\* Line 170: joblib.dump({"coin_encoder": coin_encoder}, label_encoders.pkl).
EncoderArtifact(enc) == [st |-> "ok", run |-> "this", coin_encoder |-> enc]

\* Mutant of EncoderWrite: the encoders are not dumped, the file stays.
EncoderWrite_Skipped(old, enc, r) == old

\* label_encoders.pkl after the dump of this run's encoder with outcome r.
EncoderWrite(old, enc, r) == AfterWrite(old, EncoderArtifact(enc), r)

TrainDumpEncoders ==
    /\ tpc = "dump_encoders"
    /\ \E r \in WriteOutcomes :
          /\ encFile' = EncoderWrite(encFile, coin_encoder, r)
          /\ written' = WrittenAfter("encoders", r)
          /\ IF r = "ok" THEN tpc' = "write_meta" /\ UNCHANGED << tOut, tEnd >>
                         ELSE TrainUnhandled
    /\ UNCHANGED << modelFile, metaFile >>
    /\ UNCHANGED << rows, coin_encoder, i, X, y, skipped, cv_scores, tClf, src, loaded, disk0 >>
    /\ UNCHANGED << scoreVars, featVars >>

\* Lines 172-178: the metadata (lastTrainedAt, the clock's reading, is left
\* out).  round(.., 4) changes no value counted in thousandths.
Meta(nX, scores, nSkipped) ==
    ("sampleCount" :> Whole(nX)) @@ ("accuracy" :> Num(Mean(scores)))
        @@ ("cvScores" :> List(scores)) @@ ("skipped" :> Whole(nSkipped))

MetaArtifact(d) == [st |-> "ok", run |-> "this", doc |-> Obj(d)]

\* Lines 179-180.
TrainWriteMeta ==
    /\ tpc = "write_meta"
    /\ \E r \in WriteOutcomes :
          /\ metaFile' = AfterWrite(metaFile, MetaArtifact(Meta(Len(X), cv_scores, skipped)), r)
          /\ written' = WrittenAfter("meta", r)
          /\ IF r = "ok" THEN tpc' = "report" /\ UNCHANGED << tOut, tEnd >>
                         ELSE TrainUnhandled
    /\ UNCHANGED << modelFile, encFile >>
    /\ UNCHANGED << rows, coin_encoder, i, X, y, skipped, cv_scores, tClf, src, loaded, disk0 >>
    /\ UNCHANGED << scoreVars, featVars >>

\* Lines 182-187.
OkOut(nX, scores) ==
    ("ok" :> Bool(1)) @@ ("sampleCount" :> Whole(nX)) @@ ("accuracy" :> Num(Mean(scores)))
        @@ ("cvScores" :> List(scores))

TrainReport ==
    /\ tpc = "report"
    /\ tOut' = Append(tOut, OkOut(Len(X), cv_scores))
    /\ tEnd' = "exit0"
    /\ tpc' = "done"
    /\ UNCHANGED << rows, coin_encoder, i, X, y, skipped, cv_scores, tClf, src, loaded, written, disk0 >>
    /\ UNCHANGED << diskVars, scoreVars, featVars >>

NextTrain(maxVar) ==
    \/ TrainImport
    \/ TrainLoad(maxVar)
    \/ TrainCheckRows
    \/ TrainBuildEncoder
    \/ TrainRow
    \/ TrainCheckValid
    \/ TrainCrossValidate
    \/ TrainFit
    \/ TrainDumpModel
    \/ TrainDumpEncoders
    \/ TrainWriteMeta
    \/ TrainReport

(***************************************************************************)
(* Inputs of score(): the text on standard input.  parses says whether     *)
(* json.loads accepts the stripped text, doc what it returns.              *)
(***************************************************************************)
Text(text, parses, doc) == [text |-> text, parses |-> parses, doc |-> doc]

StdinEmpty == Text("", FALSE, NonObj)
StdinBlank == Text("  \n", FALSE, NonObj)

Stdins ==
    { StdinEmpty,
      StdinBlank,
      Text("{bad", FALSE, NonObj),
      Text("[1, 2]", TRUE, NonObj),
      Text("{\"coin\": \"ETH\", \"side\": \"short\"}", TRUE,
           Obj(("coin" :> Str("ETH")) @@ ("side" :> Str("short")))),
      Text("{\"coin\": \"sol\", \"alt_rank\": 5000}", TRUE,
           Obj(("coin" :> Str("sol")) @@ ("alt_rank" :> Whole(5000)))),
      Text("{\"adx\": \"abc\"}", TRUE, Obj(("adx" :> Str("abc")))) }

\* Mutant of Strip: the text is not stripped.
Strip_Missing(text) == text

\* sys.stdin.read().strip(), on the texts above
Strip(text) == IF text \in { "", "  \n" } THEN "" ELSE text

(***************************************************************************)
(* score()                                                                 *)
(***************************************************************************)
ScoreErr(msg) == ("score" :> Null) @@ ("error" :> Str(msg))

\* print(json.dumps({"score": None, "error": ...})); return
ScoreFail(msg) ==
    /\ sOut' = Append(sOut, ScoreErr(msg))
    /\ sEnd' = "exit0"
    /\ spc' = "done"

\* Mutant of ScoreCatch: no except clause, the exception leaves score().
ScoreCatch_Uncaught(msg) ==
    /\ sOut' = sOut
    /\ sEnd' = "unhandled"
    /\ spc' = "done"
    /\ sRaised' = TRUE

\* Lines 236-237: the except clause of the try that spans lines 207-234.
ScoreCatch(msg) ==
    /\ ScoreFail(msg)
    /\ sRaised' = TRUE

\* Where train() is in its persistence: it has written to no artifact yet,
\* it has written to the classifier and not to the encoders, or it has
\* written to the encoders.
TrainPhase ==
    IF written = {} THEN "before"
    ELSE IF "encoders" \in written THEN "after" ELSE "mid"

\* Lines 192-197: the imports.
ScoreImport ==
    /\ spc = "idle"
    /\ IF sDeps
          THEN spc' = "exists" /\ UNCHANGED << sOut, sEnd >>
          ELSE ScoreFail("Missing dependency: No module named 'joblib'")
    /\ UNCHANGED << sDeps, stdin, clf, sEnc, meta, features, sRaised, sPhaseClf, sPhaseEnc >>
    /\ UNCHANGED << diskVars, trainVars, featVars >>

\* Lines 203-205: model_path.exists().
ScoreCheckModel ==
    /\ spc = "exists"
    /\ IF modelFile.st = "absent"
          THEN ScoreFail("Model not trained yet")
          ELSE spc' = "load_clf" /\ UNCHANGED << sOut, sEnd >>
    /\ UNCHANGED << sDeps, stdin, clf, sEnc, meta, features, sRaised, sPhaseClf, sPhaseEnc >>
    /\ UNCHANGED << diskVars, trainVars, featVars >>

\* Line 208: clf = joblib.load(model_path).
ScoreLoadClf ==
    /\ spc = "load_clf"
    /\ sPhaseClf' = TrainPhase
    /\ IF modelFile.st = "ok"
          THEN /\ clf' = modelFile
               /\ spc' = "load_enc"
               /\ UNCHANGED << sOut, sEnd, sRaised >>
          ELSE /\ clf' = clf
               /\ ScoreCatch("confidence_model.pkl: cannot load")
    /\ UNCHANGED << sDeps, stdin, sEnc, meta, features, sPhaseEnc >>
    /\ UNCHANGED << diskVars, trainVars, featVars >>

\* Lines 209-210: encoders = joblib.load(encoders_path); encoders["coin_encoder"].
ScoreLoadEncoders ==
    /\ spc = "load_enc"
    /\ sPhaseEnc' = TrainPhase
    /\ IF encFile.st = "ok"
          THEN /\ sEnc' = encFile
               /\ spc' = "load_meta"
               /\ UNCHANGED << sOut, sEnd, sRaised >>
          ELSE /\ sEnc' = sEnc
               /\ ScoreCatch("label_encoders.pkl: cannot load")
    /\ UNCHANGED << sDeps, stdin, clf, meta, features, sPhaseClf >>
    /\ UNCHANGED << diskVars, trainVars, featVars >>

\* Lines 212-215: meta = {}; json.load when meta_path.exists().
ScoreLoadMeta ==
    /\ spc = "load_meta"
    /\ CASE metaFile.st = "absent" ->
               /\ meta' = Obj(EmptyRow)
               /\ spc' = "read"
               /\ UNCHANGED << sOut, sEnd, sRaised >>
         [] metaFile.st = "ok" ->
               /\ meta' = metaFile.doc
               /\ spc' = "read"
               /\ UNCHANGED << sOut, sEnd, sRaised >>
         [] OTHER ->
               /\ meta' = meta
               /\ ScoreCatch("Expecting value: line 1 column 1 (char 0)")
    /\ UNCHANGED << sDeps, stdin, clf, sEnc, features, sPhaseClf, sPhaseEnc >>
    /\ UNCHANGED << diskVars, trainVars, featVars >>

\* Lines 217-220.
ScoreReadStdin ==
    /\ spc = "read"
    /\ IF Strip(stdin.text) = ""
          THEN ScoreFail("Empty stdin")
          ELSE spc' = "decode" /\ UNCHANGED << sOut, sEnd >>
    /\ UNCHANGED << sDeps, stdin, clf, sEnc, meta, features, sRaised, sPhaseClf, sPhaseEnc >>
    /\ UNCHANGED << diskVars, trainVars, featVars >>

\* Lines 222-224: json.loads, build_features.
ScoreEncode ==
    /\ spc = "decode"
    /\ IF ~stdin.parses
          THEN features' = features /\ ScoreCatch("Expecting value: line 1 column 1 (char 0)")
          ELSE IF BuildRaises(stdin.doc)
          THEN features' = features /\ ScoreCatch("build_features raised")
          ELSE /\ features' = build_features(stdin.doc.d, sEnc.coin_encoder)
               /\ spc' = "predict"
               /\ UNCHANGED << sOut, sEnd, sRaised >>
    /\ UNCHANGED << sDeps, stdin, clf, sEnc, meta, sPhaseClf, sPhaseEnc >>
    /\ UNCHANGED << diskVars, trainVars, featVars >>

\* The probability the opaque classifier gives class 1 (milli).
ProbaSamples == { 0, 730 }

\* Lines 227-229: the probability of class 1, or 0.5 when the classifier
\* knows no class 1.
ScoreValue(classes, p) == IF 1 \in classes THEN p ELSE 500

\* Lines 231-234; meta.get raises AttributeError when the metadata document
\* is no dict.
ScoreOut(val, m) ==
    ("score" :> Num(val)) @@ ("modelSamples" :> Get(m, "sampleCount", Whole(0)))

\* Lines 226-234: predict_proba (which may raise), then the result.
ScorePredict ==
    /\ spc = "predict"
    /\ \E ok \in BOOLEAN, p \in ProbaSamples :
          IF ~ok
             THEN ScoreCatch("predict_proba raised")
             ELSE IF ~meta.isObj
             THEN ScoreCatch("'list' object has no attribute 'get'")
             ELSE /\ sOut' = Append(sOut, ScoreOut(ScoreValue(clf.classes, p), meta.d))
                  /\ sEnd' = "exit0"
                  /\ spc' = "done"
                  /\ sRaised' = sRaised
    /\ UNCHANGED << sDeps, stdin, clf, sEnc, meta, features, sPhaseClf, sPhaseEnc >>
    /\ UNCHANGED << diskVars, trainVars, featVars >>

NextScore ==
    \/ ScoreImport
    \/ ScoreCheckModel
    \/ ScoreLoadClf
    \/ ScoreLoadEncoders
    \/ ScoreLoadMeta
    \/ ScoreReadStdin
    \/ ScoreEncode
    \/ ScorePredict

(***************************************************************************)
(* Initial states.                                                         *)
(***************************************************************************)
TrainIdle ==
    /\ tpc = "idle"
    /\ rows = << >>
    /\ coin_encoder = NoEncoder
    /\ i = 1
    /\ X = << >>
    /\ y = << >>
    /\ skipped = 0
    /\ cv_scores = << >>
    /\ tClf = [classes |-> {}]
    /\ tOut = << >>
    /\ tEnd = "running"
    /\ src = << >>
    /\ loaded = FALSE
    /\ written = {}
    /\ disk0 = << modelFile, encFile, metaFile >>

\* score() before its first statement.
ScoreFresh ==
    /\ clf = AbsentModel
    /\ sEnc = AbsentEnc
    /\ meta = Obj(EmptyRow)
    /\ features = << >>
    /\ sOut = << >>
    /\ sEnd = "running"
    /\ sRaised = FALSE
    /\ sPhaseClf = "none"
    /\ sPhaseEnc = "none"

ScoreOff ==
    /\ spc = "off"
    /\ sDeps = TRUE
    /\ stdin = StdinEmpty
    /\ ScoreFresh

FeatOff ==
    /\ fDoc = NonObj
    /\ fEnc = NoEncoder
    /\ fOut = [done |-> FALSE, raised |-> FALSE, vec |-> << >>]

\* MODEL_DIR before a run: never trained, or left by a complete earlier run.
TrainedDisk ==
    \/ modelFile = AbsentModel /\ encFile = AbsentEnc /\ metaFile = AbsentMeta
    \/ modelFile = PriorModel /\ encFile = PriorEnc /\ metaFile = PriorMeta

InitTrain == TrainedDisk /\ TrainIdle /\ ScoreOff /\ FeatOff

SpecTrain == InitTrain /\ [][NextTrain(MaxVar)]_vars

TrainOff ==
    /\ tpc = "off"
    /\ rows = << >>
    /\ coin_encoder = NoEncoder
    /\ i = 1
    /\ X = << >>
    /\ y = << >>
    /\ skipped = 0
    /\ cv_scores = << >>
    /\ tClf = [classes |-> {}]
    /\ tOut = << >>
    /\ tEnd = "running"
    /\ src = << >>
    /\ loaded = FALSE
    /\ written = {}
    /\ disk0 = << modelFile, encFile, metaFile >>

\* MODEL_DIR as score() can find it: each artifact absent, unloadable or
\* whole; a classifier fit on one class; metadata that is no dict or lacks
\* sampleCount.
AnyDisk ==
    /\ modelFile \in { AbsentModel, Corrupt(PriorModel), PriorModel,
                       [PriorModel EXCEPT !.classes = {0}] }
    /\ encFile \in { AbsentEnc, Corrupt(PriorEnc), PriorEnc }
    /\ metaFile \in { AbsentMeta, Corrupt(PriorMeta), PriorMeta,
                      [PriorMeta EXCEPT !.doc = NonObj],
                      [PriorMeta EXCEPT !.doc = Obj(("skipped" :> Whole(0)))] }

ScoreIdle ==
    /\ spc = "idle"
    /\ sDeps \in BOOLEAN
    /\ stdin \in Stdins
    /\ ScoreFresh

InitScore == AnyDisk /\ TrainOff /\ ScoreIdle /\ FeatOff

SpecScore == InitScore /\ [][NextScore]_vars

(***************************************************************************)
(* build_features on its own: one document drawn from FeatDocs is encoded  *)
(* with one encoder drawn from FeatEncoders.                               *)
(***************************************************************************)
Absent == [t |-> "absent", n |-> 0, s |-> ""]

\* The dict {key: v}, or {} when the field is left out.
Opt(key, v) == IF v = Absent THEN EmptyRow ELSE key :> v

FeatSides    == { Absent, Str("long"), Str("short"), Str("hold"), Null }
FeatPlusDi   == { Absent, Num(30000), Num(10000) }
FeatMinusDi  == { Absent, Num(10000), Num(25500) }
FeatAltRanks == { Absent, Whole(-5), Whole(0), Whole(1), Whole(999), Whole(1000),
                  Whole(1001), Whole(5000), Str("abc") }
FeatCoins    == { Absent, Str("ETH"), Str("sol") }

FeatDocs ==
    { NonObj } \cup
    { Obj(Opt("side", sd) @@ Opt("plus_di", p) @@ Opt("minus_di", m)
            @@ Opt("alt_rank", a) @@ Opt("coin", c)) :
        sd \in FeatSides, p \in FeatPlusDi, m \in FeatMinusDi,
        a \in FeatAltRanks, c \in FeatCoins }

FeatEncoders == { NoEncoder, PriorEnc.coin_encoder }

TrainNever == modelFile = AbsentModel /\ encFile = AbsentEnc /\ metaFile = AbsentMeta /\ TrainOff

InitFeat ==
    /\ TrainNever
    /\ ScoreOff
    /\ fDoc \in FeatDocs
    /\ fEnc \in FeatEncoders
    /\ fOut = [done |-> FALSE, raised |-> FALSE, vec |-> << >>]

\* features = build_features(row, coin_encoder), or the exception it raises.
ApplyBuildFeatures ==
    /\ ~fOut.done
    /\ fOut' = [done |-> TRUE,
                raised |-> BuildRaises(fDoc),
                vec |-> IF BuildRaises(fDoc) THEN << >>
                        ELSE build_features(fDoc.d, fEnc)]
    /\ UNCHANGED << fDoc, fEnc >>
    /\ UNCHANGED << diskVars, trainVars, scoreVars >>

SpecFeat == InitFeat /\ [][ApplyBuildFeatures]_vars

(***************************************************************************)
(* One training run and one scoring invocation, as two processes over the  *)
(* same MODEL_DIR: nothing in the code keeps one from running while the    *)
(* other does.  The training data are the datasets without extra lines.    *)
(***************************************************************************)
Init == TrainedDisk /\ TrainIdle /\ ScoreIdle /\ FeatOff

Next == NextTrain(0) \/ NextScore

Spec == Init /\ [][Next]_vars

(***************************************************************************)
(* Properties.                                                             *)
(***************************************************************************)

\* A result of score() with a null score and an error text.
IsScoreError(o) ==
    /\ DOMAIN o = { "score", "error" }
    /\ o["score"] = Null
    /\ o["error"].t = "str"
    /\ o["error"].s # ""

\* A result of score() with a numeric score.
IsScore(o) ==
    /\ DOMAIN o = { "score", "modelSamples" }
    /\ o["score"].t = "num"

\* Some step of score() cannot succeed on these inputs, or one raised.
ScoreStepFails ==
    \/ ~sDeps
    \/ modelFile.st # "ok"
    \/ encFile.st # "ok"
    \/ metaFile.st = "corrupt"
    \/ metaFile.st = "ok" /\ ~metaFile.doc.isObj
    \/ stdin \in { StdinEmpty, StdinBlank }
    \/ ~stdin.parses
    \/ BuildRaises(stdin.doc)
    \/ sRaised

\* C1: whatever the dependencies, the three artifacts and stdin are, one
\* invocation of score() runs to its end, prints exactly one result (nothing
\* before its end), ends with exit status 0 and lets no exception out; the
\* result is {"score": null, "error": text} whenever a step failed, and a
\* numeric score otherwise.
C1_ScoreNeverFails ==
    /\ sEnd # "unhandled"
    /\ spc \notin { "done", "off" } => sOut = << >> /\ sEnd = "running" /\ ENABLED NextScore
    /\ spc = "done" =>
          /\ Len(sOut) = 1
          /\ sEnd = "exit0"
          /\ IF ScoreStepFails THEN IsScoreError(sOut[1]) ELSE IsScore(sOut[1])

\* C1 witness: malformed JSON on stdin, with loadable artifacts, was caught
\* and answered.
C1_Witness ==
    /\ spc = "done"
    /\ sRaised
    /\ modelFile.st = "ok" /\ encFile.st = "ok"
    /\ stdin.text = "{bad"
    /\ sOut = << ScoreErr("Expecting value: line 1 column 1 (char 0)") >>

\* score() ran on empty or whitespace-only stdin.
EmptyStdinDone == spc = "done" /\ stdin \in { StdinEmpty, StdinBlank }

\* The steps score() takes before it reads stdin all succeed.
ArtifactsLoad ==
    /\ sDeps
    /\ modelFile.st = "ok"
    /\ encFile.st = "ok"
    /\ metaFile.st \in { "absent", "ok" }

\* C5 as stated: with empty stdin the result is {"score": null, "error":
\* "Empty stdin"} in every state of the dependencies and the artifacts.
C5_EmptyStdinAlways ==
    EmptyStdinDone => sOut = << ScoreErr("Empty stdin") >>

\* C5, amended: with empty (or whitespace-only) stdin the result is exactly
\* {"score": null, "error": "Empty stdin"} when the imports succeed, the
\* classifier and the encoders load and the metadata is absent or parses;
\* otherwise the result is the error of the earlier step that failed, which
\* is never "Empty stdin".
C5_EmptyStdinAfterLoad ==
    EmptyStdinDone =>
        IF ArtifactsLoad
           THEN sOut = << ScoreErr("Empty stdin") >>
           ELSE /\ Len(sOut) = 1
                /\ IsScoreError(sOut[1])
                /\ sOut[1] # ScoreErr("Empty stdin")

\* C5 witness: whitespace-only stdin, artifacts of an earlier run in place.
C5_Witness ==
    /\ EmptyStdinDone
    /\ stdin = StdinBlank
    /\ ArtifactsLoad
    /\ sOut = << ScoreErr("Empty stdin") >>

\* score() printed a numeric score.
Scored == spc = "done" /\ Len(sOut) = 1 /\ IsScore(sOut[1])

\* C3 as stated: in every interleaving, and after a training run that
\* stopped part-way through persistence, the classifier and the encoders
\* behind a score were written by the same training run.
C3_SameRunAlways ==
    Scored => clf.run = sEnc.run

\* C3, amended: the classifier and the encoders behind a score were written
\* by the same training run when score() loaded both before the training run
\* wrote to any artifact, or both after it wrote the encoders.
C3_SameRunOutsidePersistence ==
    Scored /\ sPhaseClf = sPhaseEnc /\ sPhaseClf \in { "before", "after" }
        => clf.run = sEnc.run

\* C3 witness: a score from artifacts both loaded after this training run
\* wrote them, over those of an earlier run.
C3_Witness ==
    /\ Scored
    /\ sPhaseClf = "after" /\ sPhaseEnc = "after"
    /\ clf.run = "this" /\ sEnc.run = "this"
    /\ disk0[1] = PriorModel

\* train() ended with {"error": text} on stdout and sys.exit(1).
TrainErrored ==
    /\ tEnd = "exit1"
    /\ Len(tOut) = 1
    /\ DOMAIN tOut[1] = { "error" }
    /\ tOut[1]["error"].t = "str"

\* C2: every run of train() that does not succeed ends with a structured
\* {"error": text} result and a non-zero exit status, never with an
\* exception nothing catches.
C2_TrainFailuresStructured ==
    tpc = "done" /\ tEnd # "exit0" => TrainErrored

\* The artifacts are as they were before the run.
DiskUnchanged == << modelFile, encFile, metaFile >> = disk0

\* The run loaded fewer than 10 records.
FewLoaded == tpc = "done" /\ loaded /\ Len(rows) < 10

\* The per-row loop ran over all the records and n rows survived it.
Survived(n) == tpc = "done" /\ loaded /\ Len(rows) >= 10 /\ i > Len(rows) /\ Len(X) = n

FewValid == \E n \in 0..9 : Survived(n)

\* The metadata file is the one this run wrote, with sampleCount n.
MetaWritten(n) ==
    /\ metaFile.st = "ok"
    /\ metaFile.run = "this"
    /\ metaFile.doc.isObj
    /\ metaFile.doc.d["sampleCount"] = Whole(n)

C7_LabelRule ==
    /\ \A k \in 1..Len(y) :
          LET d == rows[src[k]].d
          IN  /\ y[k] \in { 0, 1 }
              /\ "won" \in DOMAIN d /\ d["won"] \in { Whole(0), Whole(1) }
                    => Whole(y[k]) = d["won"]
              /\ "won" \notin DOMAIN d
                    => "pnl" \in DOMAIN d /\ (y[k] = 1 <=> Float(d["pnl"]) >= 0)
    /\ \A j \in 1..(i - 1) :
          "won" \notin DOMAIN rows[j].d /\ "pnl" \notin DOMAIN rows[j].d
              => \A k \in 1..Len(src) : src[k] # j

\* The coin strings of the loaded records.
TrainCoins == { CoinStr(rows[k].d) : k \in 1..Len(rows) }

\* Symbols no loaded record has.
UnseenCoins == ({ CoinOrder[k] : k \in 1..Len(CoinOrder) } \cup { "DOGE" }) \ TrainCoins

\* C8: the encoder train() built maps each coin of the records to its index
\* in the sorted list of the distinct coins and _unknown to the next integer,
\* and a symbol no record has is encoded with a code no coin of the records
\* has.
C8_EncoderSortedWithFreshUnknown ==
    coin_encoder # NoEncoder =>
        LET sorted == SortedCoins(TrainCoins)
        IN  /\ \A k \in 1..Len(sorted) : coin_encoder[sorted[k]] = k - 1
            /\ coin_encoder["_unknown"] = Len(sorted)
            /\ \A u \in UnseenCoins, c \in TrainCoins :
                  CoinCode(u, coin_encoder) # coin_encoder[c]

\* C10: at every point of the per-row loop X and y have the same length and
\* rows kept plus rows skipped is the number of rows processed; the metadata
\* of a successful run has sampleCount + skipped equal to the number of
\* records loaded.
C10_RowAccounting ==
    /\ Len(X) = Len(y)
    /\ Len(X) + skipped = i - 1
    /\ tEnd = "exit0" =>
          /\ metaFile.st = "ok"
          /\ metaFile.run = "this"
          /\ metaFile.doc.d["sampleCount"].n + metaFile.doc.d["skipped"].n
                = Len(rows) * Milli

\* C10 witness: a successful run that skipped rows, one of them on an
\* exception.
C10_Witness ==
    /\ tEnd = "exit0"
    /\ skipped = 2
    /\ \E j \in 1..Len(rows) : BuildRaises(rows[j])
    /\ metaFile.doc.d["skipped"] = Whole(2)

\* C6: the alt_rank_norm element is in [0, 1] for every numeric alt_rank,
\* 1.0 for alt_rank 0 and 0.0 for every alt_rank of 1000 or more.
C6_AltRankNormInUnitInterval ==
    fOut.done /\ ~fOut.raised =>
        LET alt_rank == Float(Get(fDoc.d, "alt_rank", Whole(500)))
            norm == AltRankNormOf(fOut.vec)
        IN  /\ 0 <= norm /\ norm <= Milli
            /\ alt_rank = 0 => norm = Milli
            /\ alt_rank >= 1000 * Milli => norm = 0

\* C9: di_spread and side_code agree on the direction: plus_di - minus_di
\* when side_code is 0, minus_di - plus_di when side_code is 1.
C9_SpreadAgreesWithSide ==
    fOut.done /\ ~fOut.raised =>
        LET plus_di == fOut.vec[2]
            minus_di == fOut.vec[3]
        IN  /\ SideOf(fOut.vec) = 0 => DiSpreadOf(fOut.vec) = plus_di - minus_di
            /\ SideOf(fOut.vec) = 1 => DiSpreadOf(fOut.vec) = minus_di - plus_di

=============================================================================
